---- MODULE Spec2Model ----
(***************************************************************************)
(* A model of amazon_scraper.py: the extraction of product records from a  *)
(* rendered search page (parse_search_results), the page loop with its     *)
(* try/finally around the browser session and the dedup loop               *)
(* (scrape_amazon), and the export (save_to_csv, main).                    *)
(*                                                                         *)
(* Text is a sequence of one-character strings, so that strip() and        *)
(* concatenation are computed.  A Python value that may be None is a       *)
(* record [t, v]: t = "str" with the text in v, or t = "None".             *)
(***************************************************************************)
EXTENDS Integers, Sequences, FiniteSets, TLC

VARIABLES
    pc,            \* position of the run (main / scrape_amazon)
    pages,         \* the pages argument of scrape_amazon
    page,          \* the loop variable of the page loop
    driver,        \* TRUE once scrape_amazon holds the driver (line 96 done)
    browserOpen,   \* the browser process behind the driver is alive
    quitCalls,     \* number of driver.quit() invocations
    exc,           \* the exception in flight ("none" when there is none)
    requested,     \* the pages handed to driver.get, in call order
    appended,      \* number of pages whose records were extended into all_products
    html,          \* the markup read from driver.page_source
    base,          \* the domain argument / base_domain
    products,      \* the list returned by the last parse_search_results call
    all_products,  \* the list accumulated over the pages
    dedup,         \* the list returned by scrape_amazon (items in main)
    again,         \* the dedup loop applied to its own output
    file,          \* the output file
    file0,         \* the output file as it was before the run
    saveCalls      \* number of save_to_csv invocations

vars == <<pc, pages, page, driver, browserOpen, quitCalls, exc, requested,
          appended, html, base, products, all_products, dedup, again, file,
          file0, saveCalls>>

-----------------------------------------------------------------------------
(* Bounds of the model.                                                    *)

MaxPages == 2       \* largest pages argument of a run
MaxCardsRun == 2    \* most cards on one page of a run
MaxCards == 2       \* most elements on the page given to the extractor
MaxRecs == 4        \* longest record list given to the dedup loop

-----------------------------------------------------------------------------
(* Python values.                                                          *)

PyStr(s) == [t |-> "str", v |-> s]
PyNone == [t |-> "None", v |-> <<>>]
IsStr(x) == x.t = "str"

\* bool(x) of a str or None
Truthy(x) == x.t = "str" /\ x.v # <<>>

\* element.get(name, default): the attribute's value, the default when absent
AttrGet(attr, default) == IF attr.t = "None" THEN default ELSE attr

Whitespace == {" ", "\t", "\n"}

RECURSIVE LStrip(_)
LStrip(s) ==
    IF s # <<>> /\ Head(s) \in Whitespace THEN LStrip(Tail(s)) ELSE s

RECURSIVE RStrip(_)
RStrip(s) ==
    IF s # <<>> /\ s[Len(s)] \in Whitespace
    THEN RStrip(SubSeq(s, 1, Len(s) - 1))
    ELSE s

\* str.strip()
Strip(s) == RStrip(LStrip(s))

\* tag.get_text(strip=True) of an element holding one text node
GetText(text) == Strip(text)

-----------------------------------------------------------------------------
(* urljoin(base, url) for the urls of the model: an absolute url, a url     *)
(* that starts with "/", and a path relative to the base's directory.       *)

\* index of the first c in s at or after position i, 0 when there is none
RECURSIVE IndexFrom(_, _, _)
IndexFrom(s, c, i) ==
    IF i > Len(s) THEN 0
    ELSE IF s[i] = c THEN i
    ELSE IndexFrom(s, c, i + 1)

\* index of the last c in s at or before position i, 0 when there is none
RECURSIVE LastIndexTo(_, _, _)
LastIndexTo(s, c, i) ==
    IF i < 1 THEN 0
    ELSE IF s[i] = c THEN i
    ELSE LastIndexTo(s, c, i - 1)

\* the url names its own scheme: a ":" before any "/"
HasScheme(url) ==
    LET colon == IndexFrom(url, ":", 1)
        slash == IndexFrom(url, "/", 1)
    IN  colon > 1 /\ (slash = 0 \/ colon < slash)

\* length of scheme://netloc of an absolute url
OriginLen(b) ==
    LET colon == IndexFrom(b, ":", 1)
        path == IndexFrom(b, "/", colon + 3)
    IN  IF path = 0 THEN Len(b) ELSE path - 1

Origin(b) == SubSeq(b, 1, OriginLen(b))

\* the directory of the base's path, "/" when the base has no path
BaseDir(b) ==
    LET path == SubSeq(b, OriginLen(b) + 1, Len(b))
        cut == LastIndexTo(path, "/", Len(path))
    IN  IF cut = 0 THEN <<"/">> ELSE SubSeq(path, 1, cut)

urljoin(b, url) ==
    IF url = <<>> THEN b
    ELSE IF HasScheme(url) THEN url
    ELSE IF Head(url) = "/" THEN Origin(b) \o url
    ELSE Origin(b) \o BaseDir(b) \o url

-----------------------------------------------------------------------------
(* The rendered page.  html is the sequence of the page's elements that     *)
(* may be result cards, in document order.  An element carries its tag      *)
(* name, its two attributes (PyNone: the attribute is absent), and, for     *)
(* each selector that parse_search_results runs inside it, the descendants  *)
(* matching that selector in document order (select_one takes the first).   *)
(*   h2a        anchors inside an h2: [styled, href, text], styled when the *)
(*              anchor has the classes a-link-normal and a-text-normal      *)
(*   img        img.s-image elements: [src]                                 *)
(*   whole      texts of .a-price .a-price-whole                            *)
(*   frac       texts of .a-price .a-price-fraction                         *)
(*   offscreen  texts of span.a-offscreen                                   *)
(*   icon_alt   texts of .a-icon-alt                                        *)
(*   size_base  texts of span.a-size-base                                   *)

Domain ==
    <<"h", "t", "t", "p", "s", ":", "/", "/",
      "w", "w", "w", ".", "a", "m", "a", "z", "o", "n", ".", "i", "n">>

AsinB1 == <<"B", "1">>
AsinB2 == <<"B", "2">>
AsinPadded == <<" ", "B", "2", "\n">>
Blank == <<" ">>
SearchResult ==
    <<"s", "-", "s", "e", "a", "r", "c", "h", "-", "r", "e", "s", "u", "l", "t">>
OtherComponent == <<"s", "p", "-", "a", "d">>

TitleOne == <<"T", "e", "a">>
TitleTwo == <<"M", "u", "g">>
TitlePadded == <<"\n", " ", "T", "e", "a", " ">>
HrefRooted == <<"/", "d", "p", "/", "B", "1">>
HrefAbsolute ==
    <<"h", "t", "t", "p", "s", ":", "/", "/", "a", ".", "c", "o", "/", "d">>
HrefRelative == <<"d", "p", "/", "B", "1">>
ImgSrc ==
    <<"h", "t", "t", "p", "s", ":", "/", "/", "m", ".", "c", "o", "/", "i", ".", "j", "p", "g">>
Whole19 == <<"1", "9">>
Whole20 == <<"2", "0">>
Frac99 == <<"9", "9">>
Offscreen1999 == <<"$", "1", "9", ".", "9", "9">>
RatingText ==
    <<"4", ".", "5", " ", "o", "u", "t", " ", "o", "f", " ", "5", " ", "s", "t", "a", "r", "s">>
ReviewsText == <<"1", ",", "2", "3", "4">>

StyledAnchor ==
    [styled |-> TRUE, href |-> PyStr(HrefRooted), text |-> TitleOne]
PlainAnchor ==
    [styled |-> FALSE, href |-> PyStr(HrefAbsolute), text |-> TitleTwo]

\* a result card with every sub-element present
FullCard ==
    [tag |-> "div", data_asin |-> PyStr(AsinB1),
     component |-> PyStr(SearchResult),
     h2a |-> <<StyledAnchor>>, img |-> <<[src |-> PyStr(ImgSrc)]>>,
     whole |-> <<Whole19>>, frac |-> <<Frac99>>,
     offscreen |-> <<Offscreen1999>>,
     icon_alt |-> <<RatingText>>, size_base |-> <<ReviewsText>>]

\* a result card with no sub-element at all
BareCard ==
    [FullCard EXCEPT !.h2a = <<>>, !.img = <<>>, !.whole = <<>>,
        !.frac = <<>>, !.offscreen = <<>>, !.icon_alt = <<>>,
        !.size_base = <<>>]

\* elements differing in what the selector and the asin test read
SelectionCards ==
    {[BareCard EXCEPT !.tag = t, !.data_asin = a, !.component = c] :
        t \in {"div", "span"},
        a \in {PyNone, PyStr(<<>>), PyStr(Blank), PyStr(AsinB1),
               PyStr(AsinPadded)},
        c \in {PyNone, PyStr(SearchResult), PyStr(OtherComponent)}}

PriceCards ==
    {[FullCard EXCEPT !.whole = w, !.frac = f, !.offscreen = o] :
        w \in {<<>>, <<Whole19>>}, f \in {<<>>, <<Frac99>>},
        o \in {<<>>, <<Offscreen1999>>}}

TitleCards ==
    {[FullCard EXCEPT !.h2a = a] :
        a \in {<<>>, <<PlainAnchor>>, <<PlainAnchor, StyledAnchor>>,
               <<[StyledAnchor EXCEPT !.href = PyNone]>>,
               <<[StyledAnchor EXCEPT !.href = PyStr(<<>>)]>>,
               <<[PlainAnchor EXCEPT !.href = PyStr(HrefRelative),
                                     !.text = TitlePadded]>>}}

ImageCards ==
    {[FullCard EXCEPT !.img = i] :
        i \in {<<>>, <<[src |-> PyNone]>>, <<[src |-> PyStr(ImgSrc)]>>}}

LabelCards ==
    {[FullCard EXCEPT !.icon_alt = r, !.size_base = v] :
        r \in {<<>>, <<RatingText>>}, v \in {<<>>, <<ReviewsText>>}}

\* the elements a page given to the extractor is made of
Cards ==
    SelectionCards \cup PriceCards \cup TitleCards \cup ImageCards
        \cup LabelCards \cup {BareCard}

\* the cards a page of a run is made of: two with the same identifier and
\* different fields, one with another identifier
RunCards ==
    {FullCard,
     [BareCard EXCEPT !.h2a = <<PlainAnchor>>, !.whole = <<Whole20>>],
     [BareCard EXCEPT !.data_asin = PyStr(AsinPadded)]}

\* all sequences over S of length at most n
SeqsUpTo(S, n) == UNION {[1..k -> S] : k \in 0..n}

ExtractPages == SeqsUpTo(Cards, MaxCards)
RunPages == SeqsUpTo(RunCards, MaxCardsRun)

-----------------------------------------------------------------------------
(* parse_search_results                                                    *)

\* soup.select('div[data-asin][data-component-type="s-search-result"]')
\* matches the element
Selected(el) ==
    /\ el.tag = "div"
    /\ el.data_asin.t # "None"
    /\ el.component = PyStr(SearchResult)

\* asin = r.get("data-asin", "").strip()
AsinOf(r) == Strip(AttrGet(r.data_asin, PyStr(<<>>)).v)

\* the mutated AsinKept: the continue is lost
AsinKeptAlways(asin) == TRUE

\* "if not asin: continue" lets the card through
AsinKept(asin) == asin # <<>>

\* r.select_one("h2 a.a-link-normal.a-text-normal") or r.select_one("h2 a"):
\* the anchor found, as a sequence of length 1, or <<>> for None
TitleTag(r) ==
    LET styled == SelectSeq(r.h2a, LAMBDA a : a.styled)
    IN  IF styled # <<>> THEN <<Head(styled)>>
        ELSE IF r.h2a # <<>> THEN <<Head(r.h2a)>>
        ELSE <<>>

TitleOf(r) ==
    IF TitleTag(r) # <<>> THEN PyStr(GetText(Head(TitleTag(r)).text))
    ELSE PyStr(<<>>)

LinkOf(r, base_domain) ==
    IF TitleTag(r) # <<>> /\ Truthy(Head(TitleTag(r)).href)
    THEN PyStr(urljoin(base_domain, Head(TitleTag(r)).href.v))
    ELSE PyStr(<<>>)

\* img.get("src") if img else "": get without a default gives None when the
\* attribute is absent
ImageOf(r) ==
    IF r.img # <<>> THEN Head(r.img).src ELSE PyStr(<<>>)

\* the mutated PriceOf: the "." is written whether or not a fraction follows
PriceAlwaysDot(r) ==
    IF r.whole # <<>>
    THEN PyStr(GetText(Head(r.whole)) \o <<".">>
               \o (IF r.frac # <<>> THEN GetText(Head(r.frac)) ELSE <<>>))
    ELSE IF r.offscreen # <<>> THEN PyStr(GetText(Head(r.offscreen)))
    ELSE PyStr(<<>>)

\* price_whole / price_frac / span.a-offscreen
PriceOf(r) ==
    IF r.whole # <<>>
    THEN PyStr(GetText(Head(r.whole))
               \o (IF r.frac # <<>> THEN <<".">> \o GetText(Head(r.frac))
                   ELSE <<>>))
    ELSE IF r.offscreen # <<>> THEN PyStr(GetText(Head(r.offscreen)))
    ELSE PyStr(<<>>)

RatingOf(r) ==
    IF r.icon_alt # <<>> THEN PyStr(GetText(Head(r.icon_alt)))
    ELSE PyStr(<<>>)

ReviewsOf(r) ==
    IF r.size_base # <<>> THEN PyStr(GetText(Head(r.size_base)))
    ELSE PyStr(<<>>)

\* the dict appended for card r
ProductOf(r, base_domain) ==
    [asin |-> PyStr(AsinOf(r)), title |-> TitleOf(r),
     link |-> LinkOf(r, base_domain), image |-> ImageOf(r),
     price |-> PriceOf(r), rating |-> RatingOf(r), reviews |-> ReviewsOf(r)]

\* the loop over results: one dict per selected element whose asin is kept
RECURSIVE parse_search_results(_, _)
parse_search_results(h, base_domain) ==
    IF h = <<>> THEN <<>>
    ELSE LET r == Head(h)
             rest == parse_search_results(Tail(h), base_domain)
         IN  IF Selected(r) /\ AsinKept(AsinOf(r))
             THEN <<ProductOf(r, base_domain)>> \o rest
             ELSE rest

-----------------------------------------------------------------------------
(* The dedup loop of scrape_amazon.                                        *)

\* the mutated Keep: the test on the identifier being non-empty is lost
KeepEmptyToo(p, seen) == p.asin.v \notin seen

\* if p["asin"] and p["asin"] not in seen
Keep(p, seen) == Truthy(p.asin) /\ p.asin.v \notin seen

\* the mutated SeenAfter: the identifier is never remembered
SeenForgets(p, seen) == seen

\* seen.add(p["asin"])
SeenAfter(p, seen) == seen \cup {p.asin.v}

\* the mutated DedupStart: the result list starts as the input list
DedupStartsFull(all) == all

\* dedup = []
DedupStart(all) == <<>>

\* for p in all_products: ... , from position i with seen and dedup so far
RECURSIVE DedupFrom(_, _, _, _)
DedupFrom(all, i, seen, acc) ==
    IF i > Len(all) THEN acc
    ELSE IF Keep(all[i], seen)
         THEN DedupFrom(all, i + 1, SeenAfter(all[i], seen),
                        Append(acc, all[i]))
         ELSE DedupFrom(all, i + 1, seen, acc)

DedupLoop(all) == DedupFrom(all, 1, {}, DedupStart(all))

-----------------------------------------------------------------------------
(* save_to_csv.  A file is [exists, header, rows]: the header row as the    *)
(* sequence of its column names, each data row as the sequence of its       *)
(* cells' texts.                                                            *)

FieldNames ==
    <<"asin", "title", "link", "image", "price", "rating", "reviews">>

\* the columns of pd.DataFrame(items): the keys of the dicts, none when the
\* list is empty
Columns(items) == IF items = <<>> THEN <<>> ELSE FieldNames

\* to_csv writes a missing value as the empty text
Cell(x) == IF x.t = "None" THEN <<>> ELSE x.v

RowOf(p) ==
    <<Cell(p.asin), Cell(p.title), Cell(p.link), Cell(p.image),
      Cell(p.price), Cell(p.rating), Cell(p.reviews)>>

\* df.to_csv(filename, index=False): the header line, then a line per row
CsvOf(items) ==
    [exists |-> TRUE, header |-> Columns(items),
     rows |-> [i \in 1..Len(items) |-> RowOf(items[i])]]

NoFile == [exists |-> FALSE, header |-> <<>>, rows |-> <<>>]
OldFile == [exists |-> TRUE, header |-> <<"old">>, rows |-> <<>>]

-----------------------------------------------------------------------------
(* The run: main calls scrape_amazon, then save_to_csv.                     *)

\* the mutated OnRaise: the exception leaves scrape_amazon without the
\* finally clause running
SkipFinally == "raised"

\* the mutated OnRaise: the failed page is requested again
RetryOnRaise == "get"

\* an exception raised inside the try block runs the finally clause
OnRaise == "finally"

\* the mutated Propagate: the exception is swallowed and the run goes on
SwallowAndGoOn == "dedup"

\* after the finally clause the exception in flight leaves scrape_amazon
\* and, uncaught in main, ends the run
Propagate == "raised"

\* range(1, pages+1): the page after p
NextPage(p) == p + 1

\* the for loop's test: another page, or the end of the try block
LoopTest(p, n) == IF p <= n THEN "get" ELSE "finally"

Init ==
    /\ pc = "main"
    /\ pages \in 0..MaxPages
    /\ page = 0
    /\ driver = FALSE
    /\ browserOpen = FALSE
    /\ quitCalls = 0
    /\ exc = "none"
    /\ requested = <<>>
    /\ appended = 0
    /\ html = <<>>
    /\ base = Domain
    /\ products = <<>>
    /\ all_products = <<>>
    /\ dedup = <<>>
    /\ again = <<>>
    /\ file \in {NoFile, OldFile}
    /\ file0 = file
    /\ saveCalls = 0

\* driver = start_driver(headless=headless); all_products = []; the first
\* test of the for loop
StartDriver ==
    /\ pc = "main"
    /\ driver' = TRUE
    /\ browserOpen' = TRUE
    /\ page' = 1
    /\ pc' = LoopTest(1, pages)
    /\ UNCHANGED <<pages, quitCalls, exc, requested, appended, html, base,
                   products, all_products, dedup, again, file, file0,
                   saveCalls>>

\* start_driver raises: before the browser exists (driver install, browser
\* launch), or at set_window_size with the browser launched
StartDriverFails ==
    /\ pc = "main"
    /\ \E launched \in BOOLEAN : browserOpen' = launched
    /\ exc' = "driver"
    /\ pc' = "raised"
    /\ UNCHANGED <<pages, page, driver, quitCalls, requested, appended, html,
                   base, products, all_products, dedup, again, file, file0,
                   saveCalls>>

\* a step of the try block raises
Raise(kind) ==
    /\ exc' = kind
    /\ pc' = OnRaise

\* driver.get(search_url); random_sleep
Get ==
    /\ pc = "get"
    /\ requested' = Append(requested, page)
    /\ \/ pc' = "scroll1" /\ UNCHANGED exc
       \/ Raise("render")
    /\ UNCHANGED <<pages, page, driver, browserOpen, quitCalls, appended,
                   html, base, products, all_products, dedup, again, file,
                   file0, saveCalls>>

\* driver.execute_script (scroll to a third); random_sleep
ScrollThird ==
    /\ pc = "scroll1"
    /\ \/ pc' = "scroll2" /\ UNCHANGED exc
       \/ Raise("render")
    /\ UNCHANGED <<pages, page, driver, browserOpen, quitCalls, requested,
                   appended, html, base, products, all_products, dedup,
                   again, file, file0, saveCalls>>

\* driver.execute_script (scroll to the end); random_sleep
ScrollEnd ==
    /\ pc = "scroll2"
    /\ \/ pc' = "source" /\ UNCHANGED exc
       \/ Raise("render")
    /\ UNCHANGED <<pages, page, driver, browserOpen, quitCalls, requested,
                   appended, html, base, products, all_products, dedup,
                   again, file, file0, saveCalls>>

\* html = driver.page_source
PageSource ==
    /\ pc = "source"
    /\ \/ \E h \in RunPages : html' = h /\ pc' = "parse" /\ UNCHANGED exc
       \/ Raise("render") /\ UNCHANGED html
    /\ UNCHANGED <<pages, page, driver, browserOpen, quitCalls, requested,
                   appended, base, products, all_products, dedup, again,
                   file, file0, saveCalls>>

\* products = parse_search_results(html, domain);
\* all_products.extend(products); random_sleep; the loop's next test
Parse ==
    /\ pc = "parse"
    /\ \/ /\ products' = parse_search_results(html, base)
          /\ all_products' = all_products \o products'
          /\ appended' = appended + 1
          /\ page' = NextPage(page)
          /\ pc' = LoopTest(page', pages)
          /\ UNCHANGED exc
       \/ /\ Raise("parse")
          /\ UNCHANGED <<products, all_products, appended, page>>
    /\ UNCHANGED <<pages, driver, browserOpen, quitCalls, requested, html,
                   base, dedup, again, file, file0, saveCalls>>

\* finally: driver.quit()
Quit ==
    /\ pc = "finally"
    /\ quitCalls' = quitCalls + 1
    /\ \/ /\ browserOpen' = FALSE
          /\ pc' = IF exc = "none" THEN "dedup" ELSE Propagate
          /\ UNCHANGED exc
       \/ /\ \E alive \in BOOLEAN : browserOpen' = alive
          /\ exc' = "quit"
          /\ pc' = "raised"
    /\ UNCHANGED <<pages, page, driver, requested, appended, html, base,
                   products, all_products, dedup, again, file, file0,
                   saveCalls>>

\* the dedup loop and return dedup (items in main)
Dedup ==
    /\ pc = "dedup"
    /\ dedup' = DedupLoop(all_products)
    /\ pc' = "save"
    /\ UNCHANGED <<pages, page, driver, browserOpen, quitCalls, exc,
                   requested, appended, html, base, products, all_products,
                   again, file, file0, saveCalls>>

\* save_to_csv(items, filename=args.out): the file is written, or opening
\* it fails
SaveToCsv ==
    /\ pc = "save"
    /\ saveCalls' = saveCalls + 1
    /\ \/ file' = CsvOf(dedup) /\ pc' = "done" /\ UNCHANGED exc
       \/ exc' = "io" /\ pc' = "raised" /\ UNCHANGED file
    /\ UNCHANGED <<pages, page, driver, browserOpen, quitCalls, requested,
                   appended, html, base, products, all_products, dedup, again,
                   file0>>

Next ==
    \/ StartDriver
    \/ StartDriverFails
    \/ Get
    \/ ScrollThird
    \/ ScrollEnd
    \/ PageSource
    \/ Parse
    \/ Quit
    \/ Dedup
    \/ SaveToCsv

Spec == Init /\ [][Next]_vars

-----------------------------------------------------------------------------
(* parse_search_results as a function of its arguments: a page is drawn,    *)
(* the function is applied to it.                                           *)

InitExtract ==
    /\ pc = "extract"
    /\ html \in ExtractPages
    /\ base = Domain
    /\ pages = 0
    /\ page = 0
    /\ driver = FALSE
    /\ browserOpen = FALSE
    /\ quitCalls = 0
    /\ exc = "none"
    /\ requested = <<>>
    /\ appended = 0
    /\ products = <<>>
    /\ all_products = <<>>
    /\ dedup = <<>>
    /\ again = <<>>
    /\ file = NoFile
    /\ file0 = NoFile
    /\ saveCalls = 0

ExtractCall ==
    /\ pc = "extract"
    /\ products' = parse_search_results(html, base)
    /\ pc' = "extracted"
    /\ UNCHANGED <<pages, page, driver, browserOpen, quitCalls, exc,
                   requested, appended, html, base, all_products, dedup,
                   again, file, file0, saveCalls>>

NextExtract == ExtractCall

SpecExtract == InitExtract /\ [][NextExtract]_vars

-----------------------------------------------------------------------------
(* The dedup loop as a function of the list it is given: a list of record   *)
(* dicts is drawn (identifiers empty or not), the loop is applied to it,    *)
(* and then to its own result.                                              *)

\* a record dict with the given identifier and title
RecordOf(a, t) ==
    [asin |-> PyStr(a), title |-> PyStr(t), link |-> PyStr(<<>>),
     image |-> PyStr(<<>>), price |-> PyStr(<<>>), rating |-> PyStr(<<>>),
     reviews |-> PyStr(<<>>)]

AggRecords ==
    {RecordOf(a, t) : a \in {<<>>, AsinB1, AsinB2}, t \in {TitleOne, TitleTwo}}

InitAgg ==
    /\ pc = "agg"
    /\ all_products \in SeqsUpTo(AggRecords, MaxRecs)
    /\ base = Domain
    /\ html = <<>>
    /\ pages = 0
    /\ page = 0
    /\ driver = FALSE
    /\ browserOpen = FALSE
    /\ quitCalls = 0
    /\ exc = "none"
    /\ requested = <<>>
    /\ appended = 0
    /\ products = <<>>
    /\ dedup = <<>>
    /\ again = <<>>
    /\ file = NoFile
    /\ file0 = NoFile
    /\ saveCalls = 0

AggOnce ==
    /\ pc = "agg"
    /\ dedup' = DedupLoop(all_products)
    /\ pc' = "agg1"
    /\ UNCHANGED <<pages, page, driver, browserOpen, quitCalls, exc,
                   requested, appended, html, base, products, all_products,
                   again, file, file0, saveCalls>>

AggTwice ==
    /\ pc = "agg1"
    /\ again' = DedupLoop(dedup)
    /\ pc' = "agg2"
    /\ UNCHANGED <<pages, page, driver, browserOpen, quitCalls, exc,
                   requested, appended, html, base, products, all_products,
                   dedup, file, file0, saveCalls>>

NextAgg == AggOnce \/ AggTwice

SpecAgg == InitAgg /\ [][NextAgg]_vars

-----------------------------------------------------------------------------
(* Properties.                                                              *)

\* the run is past the dedup loop: scrape_amazon has returned its list
Returned == pc \in {"save", "done"} \/ (pc = "raised" /\ exc = "io")

\* all_products[k] is the first record of the list with its identifier
FirstOfItsAsin(k) ==
    \A m \in 1..(k - 1) : all_products[m].asin # all_products[k].asin

(* C1: the list scrape_amazon returns holds no two records with the same    *)
(* identifier; every identifier collected over the pages is in it, and the  *)
(* record returned for it is its first occurrence in page-then-card order.  *)
C1_UniqueFirstWins ==
    Returned =>
        /\ \A i, j \in 1..Len(dedup) :
               i # j => dedup[i].asin # dedup[j].asin
        /\ \A i \in 1..Len(dedup) :
               \E k \in 1..Len(all_products) :
                   all_products[k] = dedup[i] /\ FirstOfItsAsin(k)
        /\ \A k \in 1..Len(all_products) :
               \E i \in 1..Len(dedup) : dedup[i].asin = all_products[k].asin

\* two pages were scraped, the second repeats an identifier of the first
\* with other field values, and the run has exported
C1_Witness ==
    /\ pc = "done"
    /\ appended = 2
    /\ Len(dedup) = 2
    /\ \E i, j \in 1..Len(all_products) :
           /\ i < j
           /\ all_products[i].asin = all_products[j].asin
           /\ all_products[i].title # all_products[j].title
           /\ j > Len(all_products) - Len(products)
           /\ i <= Len(all_products) - Len(products)

(* C2: once scrape_amazon holds the driver, driver.quit is invoked exactly  *)
(* once on every exit path, normal or by an exception raised by a step of   *)
(* the page loop: never twice, never skipped, and not before the loop ends. *)
C2_QuitExactlyOnce ==
    /\ quitCalls <= 1
    /\ (driver /\ pc \in {"dedup", "save", "done", "raised"})
           => quitCalls = 1
    /\ pc \in {"get", "scroll1", "scroll2", "source", "parse", "finally"}
           => quitCalls = 0

\* a step raised on the second page, after the first was scraped, and the
\* exception has left scrape_amazon with quit invoked once
C2_Witness ==
    /\ pc = "raised"
    /\ exc \in {"render", "parse"}
    /\ appended = 1
    /\ requested = <<1, 2>>
    /\ quitCalls = 1

\* the run was aborted before the export
AbortedBeforeExport == exc \in {"driver", "render", "parse", "quit"}

(* C3: when the run aborts before the export (start_driver raises, a step   *)
(* of a page raises, or quit raises), the exception goes to the caller,     *)
(* save_to_csv is never called and the output file stays as it was.         *)
C3_NoExportAfterAbort ==
    AbortedBeforeExport =>
        /\ pc \in {"finally", "raised"}
        /\ saveCalls = 0
        /\ file = file0

\* the second page failed with the first page's records collected, the
\* run has ended, nothing was written
C3_Witness ==
    /\ pc = "raised"
    /\ exc \in {"render", "parse"}
    /\ all_products # <<>>
    /\ saveCalls = 0
    /\ file = file0

\* the seven fields of a record
FieldsOf(p) ==
    <<p.asin, p.title, p.link, p.image, p.price, p.rating, p.reviews>>

(* C4: every field of every record parse_search_results produces is a       *)
(* string, never None (a field whose source is absent is the empty string). *)
C4_FieldsAreStrings ==
    pc = "extracted" =>
        \A i \in 1..Len(products) :
            \A f \in 1..7 : IsStr(FieldsOf(products[i])[f])

\* the row the file should hold for record p
ExpectedRow(p) ==
    <<p.asin.v, p.title.v, p.link.v, p.image.v, p.price.v, p.rating.v,
      p.reviews.v>>

(* C5: the file save_to_csv writes is the header row asin,title,link,image, *)
(* price,rating,reviews followed by one data row per record, in order, for  *)
(* every list of records, the empty list included.                          *)
C5_HeaderThenRows ==
    pc = "done" =>
        /\ file.exists
        /\ file.header = FieldNames
        /\ Len(file.rows) = Len(dedup)
        /\ \A i \in 1..Len(dedup) : file.rows[i] = ExpectedRow(dedup[i])

\* the positions of the input whose record is to be kept: a non-empty
\* identifier that no earlier record carries
KeptIdx(all) ==
    {i \in 1..Len(all) :
        /\ all[i].asin.v # <<>>
        /\ \A m \in 1..(i - 1) : all[m].asin # all[i].asin}

\* the j-th smallest member of a set of positions
NthOf(K, j) == CHOOSE i \in K : Cardinality({m \in K : m <= i}) = j

(* C6: the dedup loop keeps a record iff its identifier is non-empty and no *)
(* earlier record of the input has it; the output is the input's records at *)
(* the kept positions, in the input's order, none with an empty identifier. *)
C6_KeepIffFirstNonEmpty ==
    pc \in {"agg1", "agg2"} =>
        /\ Len(dedup) = Cardinality(KeptIdx(all_products))
        /\ \A j \in 1..Len(dedup) :
               dedup[j] = all_products[NthOf(KeptIdx(all_products), j)]
        /\ \A j \in 1..Len(dedup) : dedup[j].asin.v # <<>>

\* the input held a record with an empty identifier and a repeated
\* identifier, and two records were kept
C6_Witness ==
    /\ pc = "agg1"
    /\ Len(dedup) = 2
    /\ \E i \in 1..Len(all_products) : all_products[i].asin.v = <<>>
    /\ \E i, j \in 1..Len(all_products) :
           /\ i < j
           /\ all_products[i].asin = all_products[j].asin
           /\ all_products[i].asin.v # <<>>
           /\ all_products[i] # all_products[j]

(* C7: the dedup loop applied to its own output returns that output, and    *)
(* its output is never longer than its input.                               *)
C7_IdempotentNonExpanding ==
    /\ pc \in {"agg1", "agg2"} => Len(dedup) <= Len(all_products)
    /\ pc = "agg2" => again = dedup

\* the loop dropped records the first time and was applied again
C7_Witness ==
    /\ pc = "agg2"
    /\ Len(dedup) = 2
    /\ Len(all_products) = 4

\* an element is a result card: a div tagged as a search-result component
\* whose identifier attribute holds more than whitespace
IsResultCard(el) ==
    /\ el.tag = "div"
    /\ el.component = PyStr(SearchResult)
    /\ el.data_asin.t = "str"
    /\ \E i \in 1..Len(el.data_asin.v) : el.data_asin.v[i] \notin Whitespace

\* the text of the first node of a selector's matches
TextOf(nodes) == GetText(Head(nodes))

\* the price the three nodes of card r decide
PriceByPresence(r) ==
    IF r.whole # <<>> /\ r.frac # <<>>
    THEN TextOf(r.whole) \o <<".">> \o TextOf(r.frac)
    ELSE IF r.whole # <<>> THEN TextOf(r.whole)
    ELSE IF r.offscreen # <<>> THEN TextOf(r.offscreen)
    ELSE <<>>

(* C8: the price of a card's record is the whole text, followed by "." and  *)
(* the fraction text when there is a fraction node; without a whole node it *)
(* is the offscreen text, whether or not a fraction node is there; without  *)
(* either it is empty.  whole 19 and fraction 99 give 19.99, whole 19 alone *)
(* gives 19, offscreen $19.99 alone gives $19.99.                           *)
C8_PriceByPresence ==
    pc = "extracted" =>
        LET cards == SelectSeq(html, IsResultCard)
        IN  /\ Len(products) = Len(cards)
            /\ \A i \in 1..Len(cards) :
                 LET r == cards[i]
                     price == products[i].price
                 IN  /\ price = PyStr(PriceByPresence(r))
                     /\ (r.whole = <<Whole19>> /\ r.frac = <<Frac99>>)
                            => price.v = <<"1", "9", ".", "9", "9">>
                     /\ (r.whole = <<Whole19>> /\ r.frac = <<>>)
                            => price.v = <<"1", "9">>
                     /\ (r.whole = <<>> /\ r.offscreen = <<Offscreen1999>>)
                            => price.v = <<"$", "1", "9", ".", "9", "9">>
                     /\ (r.whole = <<>> /\ r.offscreen = <<>>)
                            => price.v = <<>>

\* a page with a card holding a whole node and no fraction node, and a card
\* holding a stray fraction node and the offscreen node, was parsed
C8_Witness ==
    /\ pc = "extracted"
    /\ Len(products) = 2
    /\ html[1].whole # <<>> /\ html[1].frac = <<>>
    /\ html[2].whole = <<>> /\ html[2].frac # <<>>
    /\ html[2].offscreen # <<>>
    /\ products[1].price.v = Whole19
    /\ products[2].price.v = Offscreen1999

\* the card test as the claim words it: tagged as a search-result component
\* and carrying a non-empty identifier attribute
QualifiesAsClaimed(el) ==
    /\ el.component = PyStr(SearchResult)
    /\ el.data_asin.t = "str"
    /\ el.data_asin.v # <<>>

Requests == requested' # requested

(* C10: the pages are requested in the order 1, 2, ..., each at most once   *)
(* and none past pages; page k+1 is requested only after page k's records   *)
(* were appended; after a failure no page is requested; every step of a     *)
(* page runs with the session open and not yet released; the dedup loop     *)
(* runs only after the release.                                             *)
C10_SequentialNoRetry ==
    /\ [](/\ \A i \in 1..Len(requested) : requested[i] = i
          /\ Len(requested) <= pages
          /\ Len(requested) <= appended + 1
          /\ appended <= Len(requested)
          /\ pc \in {"get", "scroll1", "scroll2", "source", "parse"}
                 => (driver /\ browserOpen /\ quitCalls = 0)
          /\ Returned \/ pc = "dedup" => quitCalls = 1)
    /\ [][(Requests => (exc = "none" /\ Len(requested) = appended))
          /\ (exc # "none" => exc' # "none")]_vars

\* a run of two pages went through, page 1 then page 2
C10_Witness ==
    /\ pc = "done"
    /\ pages = 2
    /\ requested = <<1, 2>>
    /\ appended = 2

====
